---- MODULE Spec2Model ----
(***************************************************************************)
(* A model of the training dashboard backend (src/backend/main.py): the    *)
(* run discovery scan, the run detail and file endpoints, the pattern list *)
(* and the websocket connection manager; and of the writer of the files it *)
(* reads, DashboardLogger (src/utils/dashboard_logger.py).                 *)
(*                                                                         *)
(* A string that names a path is kept split at "/" as [abs, segs]; the     *)
(* filesystem is a function from absolute paths (sequences of names) to    *)
(* nodes.                                                                  *)
(***************************************************************************)
EXTENDS Integers, Sequences, FiniteSets, TLC

VARIABLES
    TRAINING_RUNS_PATHS,   \* main.py:25 the process-wide pattern list
    fs,                    \* the filesystem the backend reads
    now,                   \* datetime.now().timestamp(), in seconds
    response,              \* the last response of an HTTP handler
    active_connections,    \* ConnectionManager.active_connections
    handler,               \* per websocket: where its endpoint coroutine is
    iter,                  \* per websocket: the list iterator of its broadcast
    bcast,                 \* per websocket: bookkeeping of its broadcast
    logger,                \* per DashboardLogger object: self.metrics
    metrics_json           \* metrics.json of the loggers' output_dir, entries in full

vars == <<TRAINING_RUNS_PATHS, fs, now, response, active_connections, handler, iter, bcast,
          logger, metrics_json>>

\* the state of the writer
writer == <<logger, metrics_json>>

(***************************************************************************)
(* Bounds of the model and constants of the program.                       *)
(***************************************************************************)
MaxLen == 2
MaxTick == 1
MaxSteps == 1
BaseTime == 1000
ActiveWindow == 300

(***************************************************************************)
(* Strings that name paths, and pathlib's pure path operations.            *)
(***************************************************************************)
Str(abs, segs) == [abs |-> abs, segs |-> segs]

\* bool(new_path): a string is truthy when it is not empty
Truthy(s) == s.abs \/ s.segs # <<>>

\* pathlib.Path(s): "." segments are dropped, ".." segments are kept
Path(s) == [abs |-> s.abs, segs |-> SelectSeq(s.segs, LAMBDA x : x # ".")]

\* PurePath.name: the last component, the empty string when there is none
PathName(p) == IF p.segs = <<>> THEN "" ELSE p.segs[Len(p.segs)]

\* PurePath.parent: purely lexical
PathParent(p) ==
    IF p.segs = <<>> THEN p ELSE [abs |-> p.abs, segs |-> SubSeq(p.segs, 1, Len(p.segs) - 1)]

\* PurePath.__truediv__: an absolute right operand replaces the left one
Join(p, s) ==
    IF s.abs THEN Path(s) ELSE [abs |-> p.abs, segs |-> p.segs \o Path(s).segs]

Child(p, name) == Join(p, Str(FALSE, <<name>>))

(***************************************************************************)
(* The filesystem: path resolution as the OS does it.                      *)
(***************************************************************************)
Root == <<>>
Cwd == <<"w", "p1">>
NoEnt == <<"?">>

DirParent(at) == IF at = <<>> THEN at ELSE SubSeq(at, 1, Len(at) - 1)

RECURSIVE Walk(_, _, _)
Walk(f, at, segs) ==
    IF segs = <<>> THEN at
    ELSE IF at \notin DOMAIN f \/ f[at].kind # "dir" THEN NoEnt
    ELSE LET s == Head(segs)
             nxt == IF s = "." THEN at
                    ELSE IF s = ".." THEN DirParent(at)
                    ELSE Append(at, s)
         IN Walk(f, nxt, Tail(segs))

\* the absolute location a path string or Path names (NoEnt or a path outside
\* DOMAIN f when there is none)
Resolve(f, p) == Walk(f, IF p.abs THEN Root ELSE Cwd, p.segs)

LExists(f, p) == Resolve(f, p) \in DOMAIN f
Exists(f, p) == LExists(f, p) /\ f[Resolve(f, p)].kind # "dangling"
IsDir(f, p) == LExists(f, p) /\ f[Resolve(f, p)].kind = "dir"
IsFile(f, p) == LExists(f, p) /\ f[Resolve(f, p)].kind = "file"

\* every name a directory entry of the model can have, in the order the OS lists them
NameOrder ==
    << "etc", "passwd", "w", "p1", "p2", "runs", "secret.txt", "r1", "r2", "notes.txt",
       "config.json", "metrics.json", "plots", "samples",
       "loss.png", "loss_epoch_5.png", "acc.jpg", "b.jpeg", "c.txt", "epoch_1.png",
       "_epoch_.png", "d.PNG" >>

\* os.scandir(d) / Path.iterdir(): the names of the entries of directory d
ListDir(f, d) == SelectSeq(NameOrder, LAMBDA n : Append(d, n) \in DOMAIN f)

(***************************************************************************)
(* glob.glob(pattern), for patterns whose magic segments are a whole "*".  *)
(***************************************************************************)
RECURSIVE Concat(_)
Concat(ss) == IF ss = <<>> THEN <<>> ELSE Head(ss) \o Concat(Tail(ss))

RECURSIVE GlobFrom(_, _, _, _)
GlobFrom(f, abs, lit, rest) ==
    IF rest = <<>> THEN << Str(abs, lit) >>
    ELSE LET s == Head(rest) IN
         IF s = "*"
         THEN \* glob1: scandir the directory; nothing when it cannot be listed
              LET names == IF IsDir(f, Str(abs, lit))
                           THEN ListDir(f, Resolve(f, Str(abs, lit)))
                           ELSE <<>>
              IN Concat([i \in 1..Len(names) |->
                            GlobFrom(f, abs, Append(lit, names[i]), Tail(rest))])
         ELSE \* glob0: os.path.lexists
              IF LExists(f, Str(abs, Append(lit, s)))
              THEN GlobFrom(f, abs, Append(lit, s), Tail(rest))
              ELSE <<>>

Glob(f, pattern) == IF Truthy(pattern) THEN GlobFrom(f, pattern.abs, <<>>, pattern.segs) ELSE <<>>

(***************************************************************************)
(* File contents.  A JSON file is invalid, or a value that is an array, or *)
(* an object; of an object the model keeps the two keys the backend reads: *)
(* each is absent, null, or a list.  Of a validation entry it keeps the    *)
(* timestamp field: absent, a number, or a value that is not a number.     *)
(***************************************************************************)
Ts(k, v) == [k |-> k, v |-> v]
Tm(k, n) == [k |-> k, n |-> n]
Vm(k, items) == [k |-> k, items |-> items]
Doc(json, tm, vm) == [json |-> json, tm |-> tm, vm |-> vm]

EmptyObject == Doc("object", Tm("absent", 0), Vm("absent", <<>>))
InvalidJson == Doc("invalid", Tm("absent", 0), Vm("absent", <<>>))
ArrayJson == Doc("array", Tm("absent", 0), Vm("absent", <<>>))

Node(kind, ctime, content) == [kind |-> kind, ctime |-> ctime, content |-> content]
DirNode(ctime) == Node("dir", ctime, InvalidJson)
FileNode(content) == Node("file", 0, content)
DanglingNode == Node("dangling", 0, InvalidJson)

(***************************************************************************)
(* find_all_runs                                                           *)
(***************************************************************************)
\* open(file) followed by json.load: raises unless the file is a regular file
\* holding valid JSON
LoadRaises(f, file) == ~IsFile(f, file) \/ f[Resolve(f, file)].content.json = "invalid"
Loaded(f, file) == f[Resolve(f, file)].content

\* lines 87-92: run_info["config"]
ConfigFields(f, config_file) ==
    IF ~Exists(f, config_file) THEN <<>>
    ELSE IF LoadRaises(f, config_file) THEN ("config" :> EmptyObject)
    ELSE ("config" :> Loaded(f, config_file))

\* line 106
IsRecentInclusive(t, last_time) == t - last_time <= ActiveWindow
IsRecent(t, last_time) == t - last_time < ActiveWindow

\* lines 108-110, the except branch
OnMetricsErrorCountOnly == ("metrics_count" :> 0)
OnMetricsError == ("metrics_count" :> 0) @@ ("epochs" :> 0)

\* lines 96-107, the body of the try: [raised, fields]
MetricsTry(f, t, metrics_file) ==
    IF LoadRaises(f, metrics_file) THEN [raised |-> TRUE, fields |-> <<>>]
    ELSE LET metrics == Loaded(f, metrics_file) IN
    \* metrics.get on a value that is no object
    IF metrics.json # "object" THEN [raised |-> TRUE, fields |-> <<>>]
    \* len(None)
    ELSE IF metrics.tm.k = "null" \/ metrics.vm.k = "null" THEN [raised |-> TRUE, fields |-> <<>>]
    ELSE LET metrics_count == IF metrics.tm.k = "absent" THEN 0 ELSE metrics.tm.n
             validation == IF metrics.vm.k = "absent" THEN <<>> ELSE metrics.vm.items
             epochs == Len(validation)
             counts == ("metrics_count" :> metrics_count) @@ ("epochs" :> epochs)
         IN IF validation = <<>> THEN [raised |-> FALSE, fields |-> counts]
            ELSE LET last_metric == validation[Len(validation)]
                     last_time == IF last_metric.k = "absent" THEN 0 ELSE last_metric.v
                 IN \* now - last_time on a value that is no number
                    IF last_metric.k = "bad" THEN [raised |-> TRUE, fields |-> <<>>]
                    ELSE IF IsRecent(t, last_time)
                         THEN [raised |-> FALSE, fields |-> ("status" :> "running") @@ counts]
                         ELSE [raised |-> FALSE, fields |-> counts]

\* lines 95-110: the fields the metrics file gives run_info
MetricsFields(f, t, metrics_file) ==
    IF ~Exists(f, metrics_file) THEN <<>>
    ELSE IF MetricsTry(f, t, metrics_file).raised
         THEN OnMetricsError
         ELSE MetricsTry(f, t, metrics_file).fields

\* line 81
Project(runs_path) ==
    IF PathName(PathParent(runs_path)) # "." THEN PathName(PathParent(runs_path)) ELSE "local"

\* line 75
LooksLikeRunBoth(f, run_dir) ==
    Exists(f, Child(run_dir, "config.json")) /\ Exists(f, Child(run_dir, "metrics.json"))
LooksLikeRun(f, run_dir) ==
    Exists(f, Child(run_dir, "config.json")) \/ Exists(f, Child(run_dir, "metrics.json"))

\* lines 78-110
RunInfo(f, t, runs_path, run_dir) ==
    MetricsFields(f, t, Child(run_dir, "metrics.json"))
    @@ ConfigFields(f, Child(run_dir, "config.json"))
    @@ [ id |-> PathName(run_dir),
         path |-> run_dir,
         project |-> Project(runs_path),
         status |-> "completed",
         created_at |-> f[Resolve(f, run_dir)].ctime ]

\* lines 67-112: the summaries of one runs directory, in iterdir order
ScanRunsDir(f, t, runs_path) ==
    LET names == ListDir(f, Resolve(f, runs_path))
        One(name) == LET run_dir == Child(runs_path, name) IN
                     IF ~IsDir(f, run_dir) THEN <<>>
                     ELSE IF ~LooksLikeRun(f, run_dir) THEN <<>>
                     ELSE << RunInfo(f, t, runs_path, run_dir) >>
    IN Concat([i \in 1..Len(names) |-> One(names[i])])

\* line 115: list.sort(key = created_at, reverse = True), a stable sort
RECURSIVE SortNewestFirst(_)
SortNewestFirst(runs) ==
    IF runs = <<>> THEN <<>>
    ELSE LET newest == CHOOSE i \in 1..Len(runs) :
                          /\ \A j \in 1..Len(runs) : runs[j].created_at <= runs[i].created_at
                          /\ \A j \in 1..(i - 1) : runs[j].created_at < runs[i].created_at
             rest == [k \in 1..(Len(runs) - 1) |-> IF k < newest THEN runs[k] ELSE runs[k + 1]]
         IN << runs[newest] >> \o SortNewestFirst(rest)

\* line 58: every directory string the patterns expand to, in order
Expansions(paths, f) == Concat([i \in 1..Len(paths) |-> Glob(f, paths[i])])

\* lines 52-116.  iterdir raises on a path that exists and is no directory
FindAllRuns(paths, f, t) ==
    LET dirs == Expansions(paths, f)
        scanned == SelectSeq(dirs, LAMBDA d : Exists(f, Path(d)))
    IN IF \E i \in 1..Len(scanned) : ~IsDir(f, Path(scanned[i]))
       THEN [raised |-> TRUE, runs |-> <<>>]
       ELSE [raised |-> FALSE,
             runs |-> SortNewestFirst(
                          Concat([i \in 1..Len(scanned) |-> ScanRunsDir(f, t, Path(scanned[i]))]))]

(***************************************************************************)
(* The pattern list and its endpoint.                                      *)
(***************************************************************************)
\* lines 25-30
DefaultPaths ==
    << Str(FALSE, <<".", "runs">>),
       Str(FALSE, <<"..", "*", "runs">>),
       Str(FALSE, <<"..", "..", "*", "runs">>),
       Str(TRUE, <<"path", "to", "your", "projects", "*", "runs">>) >>

InList(x, list) == \E i \in 1..Len(list) : list[i] = x

\* a request body {path: ...}: the key may be missing, the string may be empty
Body(has, path) == [has |-> has, path |-> path]
MissingBody == Body(FALSE, Str(FALSE, <<>>))

\* line 234
AcceptsNoCheck(body, list) == body.has /\ Truthy(body.path)
Accepts(body, list) == body.has /\ Truthy(body.path) /\ ~InList(body.path, list)

\* lines 230-237.  The coroutine has no await: it runs without interleaving.
AddTrainingPath(body) ==
    /\ IF Accepts(body, TRAINING_RUNS_PATHS)
       THEN /\ TRAINING_RUNS_PATHS' = Append(TRAINING_RUNS_PATHS, body.path)
            /\ response' = [op |-> "add", body |-> body, result |-> "message"]
       ELSE /\ TRAINING_RUNS_PATHS' = TRAINING_RUNS_PATHS
            /\ response' = [op |-> "add", body |-> body, result |-> "error"]
    /\ UNCHANGED <<writer, fs, now, active_connections, handler, iter, bcast>>

(***************************************************************************)
(* GET /api/runs                                                           *)
(***************************************************************************)
\* lines 122-126.  The response keeps the inputs the scan read.
GetRuns ==
    /\ \E found \in {FindAllRuns(TRAINING_RUNS_PATHS, fs, now)} :
          response' = [ op |-> "runs", paths |-> TRAINING_RUNS_PATHS, t |-> now,
                        raised |-> found.raised, runs |-> found.runs ]
    /\ UNCHANGED <<writer, TRAINING_RUNS_PATHS, fs, now, active_connections, handler, iter, bcast>>

\* the clock advances
Tick ==
    /\ now < BaseTime + MaxTick
    /\ now' = now + 1
    /\ UNCHANGED <<writer, TRAINING_RUNS_PATHS, fs, response, active_connections, handler, iter, bcast>>

(***************************************************************************)
(* File names as characters: suffixes, substrings and the order of sort.   *)
(***************************************************************************)
Chars ==
    [ n \in {"loss.png", "loss_epoch_5.png", "acc.jpg", "b.jpeg", "c.txt", "epoch_1.png",
             "_epoch_.png", "d.PNG"} |->
        CASE n = "loss.png" -> <<"l", "o", "s", "s", ".", "p", "n", "g">>
          [] n = "loss_epoch_5.png" ->
                <<"l", "o", "s", "s", "_", "e", "p", "o", "c", "h", "_", "5", ".", "p", "n", "g">>
          [] n = "acc.jpg" -> <<"a", "c", "c", ".", "j", "p", "g">>
          [] n = "b.jpeg" -> <<"b", ".", "j", "p", "e", "g">>
          [] n = "c.txt" -> <<"c", ".", "t", "x", "t">>
          [] n = "epoch_1.png" -> <<"e", "p", "o", "c", "h", "_", "1", ".", "p", "n", "g">>
          [] n = "_epoch_.png" -> <<"_", "e", "p", "o", "c", "h", "_", ".", "p", "n", "g">>
          [] n = "d.PNG" -> <<"d", ".", "P", "N", "G">> ]

\* the characters of the names, by code point
CharOrder ==
    << ".", "1", "5", "G", "N", "P", "_", "a", "b", "c", "d", "e", "g", "h", "j", "l", "n",
       "o", "p", "s", "t", "x" >>
Ord(c) == CHOOSE i \in 1..Len(CharOrder) : CharOrder[i] = c

\* str.__lt__
RECURSIVE CharsLess(_, _)
CharsLess(a, b) ==
    IF b = <<>> THEN FALSE
    ELSE IF a = <<>> THEN TRUE
    ELSE IF Head(a) = Head(b) THEN CharsLess(Tail(a), Tail(b))
    ELSE Ord(Head(a)) < Ord(Head(b))

\* sub in s
ContainsChars(s, sub) ==
    \E i \in 1..(Len(s) - Len(sub) + 1) : SubSeq(s, i, i + Len(sub) - 1) = sub

\* PurePath.suffix: from the last dot, unless that dot starts or ends the name
Suffix(name) ==
    LET c == Chars[name]
        dots == {i \in 1..Len(c) : c[i] = "."}
    IN IF dots = {} THEN <<>>
       ELSE LET i == CHOOSE d \in dots : \A e \in dots : e <= d
            IN IF 1 < i /\ i < Len(c) THEN SubSeq(c, i, Len(c)) ELSE <<>>

ImageSuffixes ==
    { <<".", "p", "n", "g">>, <<".", "j", "p", "g">>, <<".", "j", "p", "e", "g">> }

\* list.sort() of distinct names
RECURSIVE SortNames(_)
SortNames(names) ==
    IF names = {} THEN <<>>
    ELSE LET least == CHOOSE n \in names : \A m \in names \ {n} : CharsLess(Chars[n], Chars[m])
         IN << least >> \o SortNames(names \ {least})

(***************************************************************************)
(* GET /api/runs/{run_id}                                                  *)
(***************************************************************************)
\* next(r for r in all_runs if r["id"] == run_id), with its index
FirstWithId(runs, run_id) ==
    LET hits == {i \in 1..Len(runs) : runs[i].id = run_id}
    IN IF hits = {} THEN 0 ELSE CHOOSE i \in hits : \A j \in hits : i <= j

\* lines 141-158: the whole document, {} when absent or not loadable
LoadOrEmpty(f, file) ==
    IF ~Exists(f, file) THEN EmptyObject
    ELSE IF LoadRaises(f, file) THEN EmptyObject
    ELSE Loaded(f, file)

\* line 164 and line 189: the names in a directory that have an image suffix
ImageNames(f, dir) ==
    LET names == ListDir(f, Resolve(f, dir))
    IN {names[i] : i \in {j \in 1..Len(names) : Suffix(names[j]) \in ImageSuffixes}}

\* line 172
IsEpochPlotLoose(plot_file) == ContainsChars(Chars[plot_file], <<"e", "p", "o", "c", "h", "_">>)
IsEpochPlot(plot_file) == ContainsChars(Chars[plot_file], <<"_", "e", "p", "o", "c", "h", "_">>)

\* lines 161-183.  epoch_plots stays empty, so the loop at line 179 adds nothing.
Plots(f, run_dir) ==
    LET plots_dir == Child(run_dir, "plots")
    IN IF ~Exists(f, plots_dir) THEN <<>>
       ELSE SortNames({n \in ImageNames(f, plots_dir) : ~IsEpochPlot(n)})

\* lines 186-190
Samples(f, run_dir) ==
    LET samples_dir == Child(run_dir, "samples")
    IN IF ~Exists(f, samples_dir) THEN <<>>
       ELSE SortNames(ImageNames(f, samples_dir))

\* iterdir at line 164 or 189 raises on an entry that exists and is no directory
ListingRaises(f, run_dir) ==
    \/ Exists(f, Child(run_dir, "plots")) /\ ~IsDir(f, Child(run_dir, "plots"))
    \/ Exists(f, Child(run_dir, "samples")) /\ ~IsDir(f, Child(run_dir, "samples"))

\* lines 128-201
GetRun(run_id) ==
    /\ \E found \in {FindAllRuns(TRAINING_RUNS_PATHS, fs, now)} :
       \E hit \in {FirstWithId(found.runs, run_id)} :
          IF found.raised
          THEN response' = [op |-> "run", run_id |-> run_id, outcome |-> "raised"]
          ELSE IF hit = 0
          THEN response' = [op |-> "run", run_id |-> run_id, outcome |-> "Run not found"]
          ELSE \E run \in {found.runs[hit]} :
               \E run_dir \in {Path(run.path)} :
                  IF ListingRaises(fs, run_dir)
                  THEN response' = [op |-> "run", run_id |-> run_id, outcome |-> "raised"]
                  ELSE response' =
                         [ op |-> "run", run_id |-> run_id, outcome |-> "ok",
                           id |-> run_id,
                           path |-> run.path,
                           project |-> run.project,
                           config |-> LoadOrEmpty(fs, Child(run_dir, "config.json")),
                           metrics |-> LoadOrEmpty(fs, Child(run_dir, "metrics.json")),
                           plots |-> Plots(fs, run_dir),
                           samples |-> Samples(fs, run_dir),
                           status |-> run.status ]
    /\ UNCHANGED <<writer, TRAINING_RUNS_PATHS, fs, now, active_connections, handler, iter, bcast>>

(***************************************************************************)
(* GET /api/files/{run_id}/{file_path:path}                                *)
(***************************************************************************)
\* lines 203-220.  file_path is the rest of the URL path as the client sent it.
ServeFile(run_id, file_path) ==
    /\ \E found \in {FindAllRuns(TRAINING_RUNS_PATHS, fs, now)} :
       \E hit \in {FirstWithId(found.runs, run_id)} :
          IF found.raised
          THEN response' = [op |-> "file", run_id |-> run_id, file_path |-> file_path,
                            outcome |-> "raised"]
          ELSE IF hit = 0
          THEN response' = [op |-> "file", run_id |-> run_id, file_path |-> file_path,
                            outcome |-> "Run not found"]
          ELSE \E run \in {found.runs[hit]} :
               \E file_full_path \in {Join(Path(run.path), file_path)} :
                  IF Exists(fs, file_full_path) /\ IsFile(fs, file_full_path)
                  THEN response' = [op |-> "file", run_id |-> run_id, file_path |-> file_path,
                                    outcome |-> "FileResponse", run_path |-> run.path,
                                    served |-> file_full_path]
                  ELSE response' = [op |-> "file", run_id |-> run_id, file_path |-> file_path,
                                    outcome |-> "File not found"]
    /\ UNCHANGED <<writer, TRAINING_RUNS_PATHS, fs, now, active_connections, handler, iter, bcast>>

(***************************************************************************)
(* The connection manager and the websocket endpoint.  Every await is a    *)
(* point where the other coroutines of the event loop run.                 *)
(***************************************************************************)
\* the WebSocket objects; each is one connection, from its request to its end
Sockets == {"a", "b", "c"}

InitSockets ==
    /\ active_connections = <<>>
    /\ handler = [w \in Sockets |-> "new"]
    /\ iter = [w \in Sockets |-> 0]
    /\ bcast = [w \in Sockets |-> [target |-> "", attempted |-> {}, failed |-> FALSE, stayed |-> {},
                                 done |-> FALSE]]

Members(list) == {list[i] : i \in 1..Len(list)}

\* list.remove(x): the first occurrence goes
Remove(list, x) ==
    LET at == CHOOSE i \in 1..Len(list) : list[i] = x /\ \A j \in 1..(i - 1) : list[j] # x
    IN [k \in 1..(Len(list) - 1) |-> IF k < at THEN list[k] ELSE list[k + 1]]

\* line 241 and line 37: the endpoint starts and awaits websocket.accept()
Open(w) ==
    /\ handler[w] = "new"
    /\ handler' = [handler EXCEPT ![w] = "accepting"]
    /\ UNCHANGED <<writer, TRAINING_RUNS_PATHS, fs, now, response, active_connections, iter, bcast>>

\* line 38, then line 244: the socket joins the list and awaits receive_text()
Connect(w) ==
    /\ handler[w] = "accepting"
    /\ active_connections' = Append(active_connections, w)
    /\ handler' = [handler EXCEPT ![w] = "receiving"]
    /\ UNCHANGED <<writer, TRAINING_RUNS_PATHS, fs, now, response, iter, bcast>>

\* lines 247-248 and 40-41: receive_text() raises WebSocketDisconnect
Disconnect(w) ==
    /\ handler[w] = "receiving"
    /\ active_connections' = Remove(active_connections, w)
    /\ handler' = [handler EXCEPT ![w] = "disconnected"]
    /\ bcast' = [v \in Sockets |->
                    IF handler[v] = "sending"
                    THEN [bcast[v] EXCEPT !.stayed = bcast[v].stayed \ {w}]
                    ELSE bcast[v]]
    /\ UNCHANGED <<writer, TRAINING_RUNS_PATHS, fs, now, response, iter>>

\* lines 244-246 and 44-46: a text arrives, the broadcast takes the first
\* connection from the list iterator and awaits its send_text
Receive(w) ==
    /\ handler[w] = "receiving"
    /\ handler' = [handler EXCEPT ![w] = "sending"]
    /\ iter' = [iter EXCEPT ![w] = 1]
    /\ bcast' = [bcast EXCEPT ![w] = [target |-> active_connections[1], attempted |-> {},
                                      failed |-> FALSE,
                                      stayed |-> Members(active_connections), done |-> FALSE]]
    /\ UNCHANGED <<writer, TRAINING_RUNS_PATHS, fs, now, response, active_connections>>

\* lines 44-48: the awaited send_text returns or raises (the except passes),
\* and the list iterator gives the next connection, if its index is still in
\* the list: then the broadcast awaits that send
SendNext(w, ok) ==
    /\ handler[w] = "sending"
    /\ iter[w] < Len(active_connections)
    /\ iter' = [iter EXCEPT ![w] = iter[w] + 1]
    /\ bcast' = [bcast EXCEPT ![w].attempted = bcast[w].attempted \cup {bcast[w].target},
                              ![w].failed = bcast[w].failed \/ ~ok,
                              ![w].target = active_connections[iter[w] + 1]]
    /\ UNCHANGED <<writer, TRAINING_RUNS_PATHS, fs, now, response, active_connections, handler>>

\* lines 44-48 and 243-244: the last send returns or raises, the iterator is
\* exhausted, the broadcast returns and the endpoint awaits receive_text()
SendLast(w, ok) ==
    /\ handler[w] = "sending"
    /\ iter[w] >= Len(active_connections)
    /\ handler' = [handler EXCEPT ![w] = "receiving"]
    /\ bcast' = [bcast EXCEPT ![w].attempted = bcast[w].attempted \cup {bcast[w].target},
                              ![w].failed = bcast[w].failed \/ ~ok,
                              ![w].target = "",
                              ![w].done = TRUE]
    /\ UNCHANGED <<writer, TRAINING_RUNS_PATHS, fs, now, response, active_connections, iter>>

(***************************************************************************)
(* DashboardLogger.  Every object writes output_dir/metrics.json; the      *)
(* objects of the model share one output_dir.                              *)
(***************************************************************************)
\* the DashboardLogger objects: a second one is a restarted or a concurrent
\* training script given the same output directory
Loggers == {"first", "second"}

\* lines 25-29: the metrics a new object starts with
NoMetrics == [training_metrics |-> <<>>, validation_metrics |-> <<>>, metadata |-> {"run_id"}]

\* no object constructed yet, no metrics.json written yet
InitWriter ==
    /\ logger = [l \in Loggers |-> [live |-> FALSE, metrics |-> NoMetrics]]
    /\ metrics_json = [present |-> FALSE, metrics |-> NoMetrics]

\* lines 72-75: the file is opened with 'w' and self.metrics dumped into it
SaveMetrics(old, metrics) == [present |-> TRUE, metrics |-> metrics]

\* lines 19-34: self.metrics starts empty, whatever the directory holds
NewLogger(l) ==
    /\ ~logger[l].live
    /\ logger' = [logger EXCEPT ![l] = [live |-> TRUE, metrics |-> NoMetrics]]
    /\ UNCHANGED <<TRAINING_RUNS_PATHS, fs, now, response, active_connections, handler, iter,
                   bcast, metrics_json>>

\* lines 36-40
LogMetadata(l, kwargs) ==
    /\ logger[l].live
    /\ LET metrics == [logger[l].metrics EXCEPT !.metadata = @ \cup kwargs]
       IN /\ logger' = [logger EXCEPT ![l].metrics = metrics]
          /\ metrics_json' = SaveMetrics(metrics_json, metrics)
    /\ UNCHANGED <<TRAINING_RUNS_PATHS, fs, now, response, active_connections, handler, iter,
                   bcast>>

\* lines 42-55: the entry is appended in memory; nothing is saved
LogTrainingStep(l, epoch, step) ==
    /\ logger[l].live
    /\ Len(logger[l].metrics.training_metrics) < MaxSteps
    /\ logger' = [logger EXCEPT ![l].metrics.training_metrics =
                     Append(@, [epoch |-> epoch, step |-> step, timestamp |-> now])]
    /\ UNCHANGED <<TRAINING_RUNS_PATHS, fs, now, response, active_connections, handler, iter,
                   bcast, metrics_json>>

\* lines 57-70
LogEpoch(l, epoch) ==
    /\ logger[l].live
    /\ Len(logger[l].metrics.validation_metrics) < MaxLen
    /\ LET metrics == [logger[l].metrics EXCEPT !.validation_metrics =
                          Append(@, [epoch |-> epoch, timestamp |-> now])]
       IN /\ logger' = [logger EXCEPT ![l].metrics = metrics]
          /\ metrics_json' = SaveMetrics(metrics_json, metrics)
    /\ UNCHANGED <<TRAINING_RUNS_PATHS, fs, now, response, active_connections, handler, iter,
                   bcast>>

(***************************************************************************)
(* The filesystems the scan is checked on.                                 *)
(***************************************************************************)
P1 == <<"w", "p1">>
P2 == <<"w", "p2">>
P1Runs == <<"w", "p1", "runs">>
P2Runs == <<"w", "p2", "runs">>

BaseTree ==
    (Root :> DirNode(0)) @@ (<<"etc">> :> DirNode(0))
    @@ (<<"etc", "passwd">> :> FileNode(InvalidJson))
    @@ (<<"w">> :> DirNode(0)) @@ (P1 :> DirNode(0)) @@ (P2 :> DirNode(0))
    @@ (Append(P1, "secret.txt") :> FileNode(InvalidJson))

\* the last validation timestamp that is inside the window at BaseTime and
\* outside it one second later
RecentTime == BaseTime - ActiveWindow + 1

TmChoices == {Tm("absent", 0), Tm("null", 0)} \cup {Tm("list", n) : n \in 0..MaxLen}
TsChoices == {Ts("absent", 0), Ts("bad", 0), Ts("num", RecentTime)}
VmChoices ==
    {Vm("absent", <<>>), Vm("null", <<>>)}
    \cup {Vm("list", s) : s \in UNION {[1..n -> TsChoices] : n \in 0..MaxLen}}

Opt(present, node) == [present |-> present, node |-> node]
Absent == Opt(FALSE, DanglingNode)

ConfigChoices ==
    {Absent, Opt(TRUE, FileNode(EmptyObject)), Opt(TRUE, FileNode(InvalidJson))}

MetricsChoices ==
    {Absent, Opt(TRUE, FileNode(InvalidJson)), Opt(TRUE, FileNode(ArrayJson)),
     Opt(TRUE, DirNode(0))}
    \cup {Opt(TRUE, FileNode(Doc("object", tm, vm))) : tm \in TmChoices, vm \in VmChoices}

Entry(at, opt) == IF opt.present THEN (at :> opt.node) ELSE <<>>

\* a directory dir holding one regular file per name
Images(dir, names) ==
    (dir :> DirNode(0)) @@ [p \in {Append(dir, n) : n \in names} |-> FileNode(InvalidJson)]

\* a directory at `at` holding the given config.json and metrics.json
RunTree(at, ctime, config, metrics) ==
    (at :> DirNode(ctime))
    @@ Entry(Append(at, "config.json"), config)
    @@ Entry(Append(at, "metrics.json"), metrics)

\* a run that reported a validation epoch one second after RecentTime
HealthyMetrics ==
    Opt(TRUE, FileNode(Doc("object", Tm("list", 1), Vm("list", <<Ts("num", RecentTime + 1)>>))))
HealthyRun(at) == RunTree(at, 1, Opt(TRUE, FileNode(EmptyObject)), HealthyMetrics)

\* what sits beside r1 in the runs directory of p1
SecondEntry(kind) ==
    CASE kind = "none" -> <<>>
      [] kind = "file" -> (Append(P1Runs, "notes.txt") :> FileNode(InvalidJson))
      [] kind = "bare" -> RunTree(Append(P1Runs, "r2"), 1, Absent, Absent)
                          @@ Images(Append(Append(P1Runs, "r2"), "plots"), {"loss.png"})
      [] kind = "run" -> HealthyRun(Append(P1Runs, "r2"))

\* the runs entry of the sibling project p2
Sibling(kind) ==
    CASE kind = "none" -> <<>>
      [] kind = "file" -> (P2Runs :> FileNode(InvalidJson))
      [] kind = "dangling" -> (P2Runs :> DanglingNode)
      [] kind = "runs" -> (P2Runs :> DirNode(0)) @@ HealthyRun(Append(P2Runs, "r1"))

\* r1 of p1 with every metrics.json beside a healthy r2, and every layout of
\* the two projects with the plainest metrics.json
PlainMetrics == {Absent, Opt(TRUE, FileNode(InvalidJson)), HealthyMetrics}

ScanTrees ==
    { BaseTree @@ (P1Runs :> DirNode(0))
        @@ RunTree(Append(P1Runs, "r1"), 1, config, metrics)
        @@ SecondEntry("run") :
        config \in {Absent, Opt(TRUE, FileNode(EmptyObject))}, metrics \in MetricsChoices }
    \cup
    { BaseTree @@ (P1Runs :> DirNode(0))
        @@ RunTree(Append(P1Runs, "r1"), ctime, config, metrics)
        @@ SecondEntry(second) @@ Sibling(sibling) :
        ctime \in 1..2, config \in ConfigChoices, metrics \in PlainMetrics,
        second \in {"none", "file", "bare", "run"},
        sibling \in {"none", "file", "dangling", "runs"} }

ScanBodies ==
    { MissingBody, Body(TRUE, Str(FALSE, <<>>)), Body(TRUE, Str(FALSE, <<".", "runs">>)),
      Body(TRUE, Str(FALSE, <<"..", "p2", "runs">>)) }

InitScan ==
    /\ TRAINING_RUNS_PATHS = DefaultPaths
    /\ fs \in ScanTrees
    /\ now = BaseTime
    /\ response = [op |-> "none"]
    /\ InitSockets
    /\ InitWriter

NextScan ==
    \/ GetRuns
    \/ Tick
    \/ \E body \in ScanBodies : AddTrainingPath(body)

SpecScan == InitScan /\ [][NextScan]_vars

(***************************************************************************)
(* Properties of the scan.  They speak of the directories on disk by their *)
(* absolute location, and of the last response of GET /api/runs.           *)
(***************************************************************************)
Scanned == response.op = "runs"
Returned == response.op = "runs" /\ ~response.raised
Summaries == IF Returned THEN {response.runs[i] : i \in 1..Len(response.runs)} ELSE {}
At(r) == Resolve(fs, r.path)
Has(d, name) == Append(d, name) \in DOMAIN fs

\* the directories the patterns of the scan expand to
ExpandedDirs ==
    LET dirs == Expansions(response.paths, fs)
    IN {Resolve(fs, dirs[i]) : i \in {j \in 1..Len(dirs) : IsDir(fs, dirs[j])}}

\* the entries of those directories
ExpandedEntries == {d \in DOMAIN fs : d # Root /\ DirParent(d) \in ExpandedDirs}

\* C1: an entry of a directory that a pattern expands to has a summary in the
\* output of the scan exactly when it is a directory that contains config.json
\* or metrics.json.
C1_RunIffArtifact ==
    Returned =>
        \A d \in ExpandedEntries :
            (\E r \in Summaries : At(r) = d)
            <=> (fs[d].kind = "dir" /\ (Has(d, "config.json") \/ Has(d, "metrics.json")))

C1_Witness ==
    /\ Returned
    /\ \E d \in ExpandedEntries : /\ fs[d].kind = "dir" /\ Has(d, "plots")
                                   /\ ~Has(d, "config.json") /\ ~Has(d, "metrics.json")
                                   /\ ~\E r \in Summaries : At(r) = d
    /\ \E d \in ExpandedEntries : /\ ~Has(d, "config.json") /\ Has(d, "metrics.json")
                                   /\ \E r \in Summaries : At(r) = d

\* a metrics.json that exists and cannot be parsed or used
Unusable(m) ==
    \/ fs[m].kind # "file"
    \/ fs[m].content.json # "object"
    \/ fs[m].content.tm.k = "null"
    \/ fs[m].content.vm.k = "null"
    \/ /\ fs[m].content.vm.items # <<>>
       /\ fs[m].content.vm.items[Len(fs[m].content.vm.items)].k = "bad"

CorruptRuns ==
    {d \in ExpandedEntries : fs[d].kind = "dir" /\ Has(d, "metrics.json")
                              /\ Unusable(Append(d, "metrics.json"))}

Without(f, file) == [p \in DOMAIN f \ {file} |-> f[p]]
Others(runs, f, d) == SelectSeq(runs, LAMBDA r : Resolve(f, r.path) # d)

\* C2: a run whose metrics.json cannot be parsed or used is in the output with
\* metrics_count 0, epochs 0 and status completed; the scan raises only if it
\* raises without that file, and the other runs are as they are without it.
C2_CorruptMetricsTolerated ==
    Scanned =>
        \A d \in CorruptRuns :
            LET plain == FindAllRuns(response.paths, Without(fs, Append(d, "metrics.json")),
                                     response.t)
            IN /\ response.raised = plain.raised
               /\ Returned =>
                    /\ \E r \in Summaries : At(r) = d
                    /\ \A r \in Summaries : At(r) = d =>
                          /\ "metrics_count" \in DOMAIN r /\ r.metrics_count = 0
                          /\ "epochs" \in DOMAIN r /\ r.epochs = 0
                          /\ r.status = "completed"
                    /\ Others(response.runs, fs, d) = Others(plain.runs, fs, d)

C2_Witness ==
    /\ Returned
    /\ \E d \in CorruptRuns :
          /\ fs[Append(d, "metrics.json")].kind = "file"
          /\ fs[Append(d, "metrics.json")].content.json = "object"
          /\ \E r \in Summaries : At(r) = d
          /\ \E r \in Summaries : At(r) # d /\ r.status = "running"

\* C3, as the claim states it: every summary carries metrics_count and epochs
\* as non-negative integers, and both are 0 when the run has no metrics.json.
C3_CountsAlwaysPresent ==
    \A r \in Summaries :
        /\ "metrics_count" \in DOMAIN r /\ r.metrics_count \in Nat
        /\ "epochs" \in DOMAIN r /\ r.epochs \in Nat
        /\ ~Has(At(r), "metrics.json") => r.metrics_count = 0 /\ r.epochs = 0

\* the rule of the status: validation_metrics is a non-empty list whose last
\* timestamp (0 when absent) is a number less than 300 seconds before t
Parses(d) ==
    /\ Has(d, "metrics.json")
    /\ fs[Append(d, "metrics.json")].kind = "file"
    /\ fs[Append(d, "metrics.json")].content.json # "invalid"

LastWithinWindow(d, t) ==
    LET doc == fs[Append(d, "metrics.json")].content IN
    /\ doc.json = "object"
    /\ doc.vm.k = "list"
    /\ doc.vm.items # <<>>
    /\ LET last == doc.vm.items[Len(doc.vm.items)] IN
       /\ last.k # "bad"
       /\ t - (IF last.k = "absent" THEN 0 ELSE last.v) < 300

C9_LocalProject ==
    \A r \in Summaries :
        IF PathParent(PathParent(r.path)).segs = <<>>
        THEN r.project = "local"
        ELSE r.project = DirParent(DirParent(At(r)))[Len(At(r)) - 2]

\* C10, as the claim states it: no directory on disk has two summaries in the
\* output of one scan.
C10_OneSummaryPerDirectory ==
    Returned =>
        \A i, j \in 1..Len(response.runs) :
            At(response.runs[i]) = At(response.runs[j]) => i = j

(***************************************************************************)
(* The run detail, checked on every content of the plots directory of r1.  *)
(***************************************************************************)
PlotNames == DOMAIN Chars

PlotsChoices(at) ==
    {<<>>, (Append(at, "plots") :> FileNode(InvalidJson))}
    \cup {Images(Append(at, "plots"), names) : names \in SUBSET PlotNames}

SamplesChoices(at) == {<<>>, Images(Append(at, "samples"), {"b.jpeg", "acc.jpg", "c.txt"})}

DetailTrees ==
    { BaseTree @@ (P1Runs :> DirNode(0)) @@ HealthyRun(Append(P1Runs, "r1")) @@ plots @@ samples :
        plots \in PlotsChoices(Append(P1Runs, "r1")),
        samples \in SamplesChoices(Append(P1Runs, "r1")) }

InitDetail ==
    /\ TRAINING_RUNS_PATHS = DefaultPaths
    /\ fs \in DetailTrees
    /\ now = BaseTime
    /\ response = [op |-> "none"]
    /\ InitSockets
    /\ InitWriter

NextDetail == \E run_id \in {"r1", "r2"} : GetRun(run_id)

SpecDetail == InitDetail /\ [][NextDetail]_vars

Detail == response.op = "run" /\ response.outcome = "ok"
PlotsDir == Append(Resolve(fs, response.path), "plots")
InPlotsDir == {n \in PlotNames : Append(PlotsDir, n) \in DOMAIN fs}

EndsWith(s, e) == Len(s) > Len(e) /\ SubSeq(s, Len(s) - Len(e) + 1, Len(s)) = e
HasImageExtension(n) == \E e \in ImageSuffixes : EndsWith(Chars[n], e)
HasEpochMarker(n) ==
    \E i \in 1..Len(Chars[n]) :
        /\ i + 6 <= Len(Chars[n])
        /\ <<Chars[n][i], Chars[n][i + 1], Chars[n][i + 2], Chars[n][i + 3], Chars[n][i + 4],
             Chars[n][i + 5], Chars[n][i + 6]>> = <<"_", "e", "p", "o", "c", "h", "_">>

PathBodies ==
    { MissingBody, Body(TRUE, Str(FALSE, <<>>)),
      Body(TRUE, Str(FALSE, <<".", "runs">>)),
      Body(TRUE, Str(FALSE, <<"..", "*", "runs">>)),
      Body(TRUE, Str(FALSE, <<"runs">>)),
      Body(TRUE, Str(FALSE, <<"..", "p2", "runs">>)),
      Body(TRUE, Str(TRUE, <<"data", "runs">>)),
      Body(TRUE, Str(TRUE, <<"w", "*", "runs">>)) }

PathsTree ==
    BaseTree @@ (P1Runs :> DirNode(0)) @@ HealthyRun(Append(P1Runs, "r1"))
    @@ (P2Runs :> DirNode(0)) @@ HealthyRun(Append(P2Runs, "r2"))

InitPaths ==
    /\ TRAINING_RUNS_PATHS = DefaultPaths
    /\ fs = PathsTree
    /\ now = BaseTime
    /\ response = [op |-> "none"]
    /\ InitSockets
    /\ InitWriter

NextPaths ==
    \/ \E body \in PathBodies : AddTrainingPath(body)
    \/ GetRuns

SpecPaths == InitPaths /\ [][NextPaths]_vars

NoDuplicates(list) == \A i, j \in 1..Len(list) : list[i] = list[j] => i = j
IsPrefix(a, b) == Len(a) <= Len(b) /\ SubSeq(b, 1, Len(a)) = a

\* C6: the pattern list never holds a pattern twice; a step never removes or
\* reorders an entry; an add request whose path is missing, empty or in the list
\* answers with the error and changes nothing, and any other is appended.
C6_AddRejectsDuplicates ==
    /\ [](NoDuplicates(TRAINING_RUNS_PATHS))
    /\ [][IsPrefix(TRAINING_RUNS_PATHS, TRAINING_RUNS_PATHS')]_vars
    /\ [][response'.op = "add" /\ response' # response =>
            IF \/ ~response'.body.has
               \/ response'.body.path = Str(FALSE, <<>>)
               \/ InList(response'.body.path, TRAINING_RUNS_PATHS)
            THEN /\ response'.result = "error"
                 /\ TRAINING_RUNS_PATHS' = TRAINING_RUNS_PATHS
            ELSE /\ response'.result = "message"
                 /\ TRAINING_RUNS_PATHS' = TRAINING_RUNS_PATHS \o <<response'.body.path>>]_vars

C6_Witness ==
    /\ Len(TRAINING_RUNS_PATHS) = Len(DefaultPaths) + 4
    /\ response.op = "add"
    /\ response.result = "error"
    /\ response.body.path = TRAINING_RUNS_PATHS[Len(TRAINING_RUNS_PATHS)]

(***************************************************************************)
(* The file endpoint, on trees with files inside and outside the run.      *)
(***************************************************************************)
FileTrees ==
    { BaseTree @@ (P1Runs :> DirNode(0))
        @@ HealthyRun(Append(P1Runs, "r1"))
        @@ plots @@ second @@ sibling :
        plots \in {<<>>, Images(Append(Append(P1Runs, "r1"), "plots"), {"loss.png"})},
        second \in {SecondEntry("none"), SecondEntry("run")},
        sibling \in {Sibling("none"), Sibling("runs")} }

FilePaths ==
    { Str(FALSE, <<>>),
      Str(FALSE, <<"config.json">>),
      Str(FALSE, <<"plots", "loss.png">>),
      Str(FALSE, <<"plots">>),
      Str(FALSE, <<"missing.txt">>),
      Str(FALSE, <<"plots", "..", "config.json">>),
      Str(FALSE, <<"..", "r2", "config.json">>),
      Str(FALSE, <<"..", "..", "secret.txt">>),
      Str(TRUE, <<"etc", "passwd">>) }

InitFiles ==
    /\ TRAINING_RUNS_PATHS = DefaultPaths
    /\ fs \in FileTrees
    /\ now = BaseTime
    /\ response = [op |-> "none"]
    /\ InitSockets
    /\ InitWriter

NextFiles == \E run_id \in {"r1", "r2", "r3"}, file_path \in FilePaths : ServeFile(run_id, file_path)

SpecFiles == InitFiles /\ [][NextFiles]_vars

\* C7, as the claim states it: a file that is served lies inside the directory
\* of the run the request names.
C7_ServedFileInsideRun ==
    response.op = "file" /\ response.outcome = "FileResponse" =>
        IsPrefix(Resolve(fs, response.run_path), Resolve(fs, response.served))

(***************************************************************************)
(* The websocket endpoint: connections, disconnections and broadcasts.     *)
(***************************************************************************)
InitWs ==
    /\ TRAINING_RUNS_PATHS = DefaultPaths
    /\ fs = PathsTree
    /\ now = BaseTime
    /\ response = [op |-> "none"]
    /\ InitSockets
    /\ InitWriter

NextWs ==
    \E w \in Sockets :
        \/ Open(w)
        \/ Connect(w)
        \/ Disconnect(w)
        \/ Receive(w)
        \/ \E ok \in BOOLEAN : SendNext(w, ok)
        \/ \E ok \in BOOLEAN : SendLast(w, ok)

SpecWs == InitWs /\ [][NextWs]_vars

\* C8, as the claim states it: when a broadcast has ended, every listener that
\* was connected from its start to its end has been sent the message.
C8_BroadcastReachesAll ==
    \A w \in Sockets : bcast[w].done => bcast[w].stayed \subseteq bcast[w].attempted

(***************************************************************************)
(* The writer: loggers constructed for one directory, and their calls.     *)
(***************************************************************************)
InitLogger ==
    /\ TRAINING_RUNS_PATHS = DefaultPaths
    /\ fs = PathsTree
    /\ now = BaseTime
    /\ response = [op |-> "none"]
    /\ InitSockets
    /\ InitWriter

NextLogger ==
    \E l \in Loggers :
        \/ NewLogger(l)
        \/ \E kwargs \in {{}, {"lr"}} : LogMetadata(l, kwargs)
        \/ \E epoch \in 1..2 : LogTrainingStep(l, epoch, 10 * epoch)
        \/ \E epoch \in 1..2 : LogEpoch(l, epoch)

SpecLogger == InitLogger /\ [][NextLogger]_vars

\* C11, as the claim states it: whenever metrics.json is saved over an earlier
\* content, the earlier training_metrics and validation_metrics are prefixes of
\* the new ones.
C11_SavedMetricsOnlyGrow ==
    [][metrics_json.present =>
          /\ metrics_json'.present
          /\ IsPrefix(metrics_json.metrics.training_metrics,
                      metrics_json'.metrics.training_metrics)
          /\ IsPrefix(metrics_json.metrics.validation_metrics,
                      metrics_json'.metrics.validation_metrics)]_vars

====
